---- MODULE Spec2Model ----
(***************************************************************************)
(* Model of .github/scripts/pom_version_checker.py: the script reads the   *)
(* version of pom.xml, asks git for the latest tag, and creates and pushes *)
(* the tag "v"+version when the two differ.  The script is run repeatedly  *)
(* (one CI run after another) on the same manifest and the same clone.     *)
(*                                                                         *)
(* Python strings are sequences of one-character strings, so that          *)
(* formatting (f"v{version}") and str.strip() are computed.  Optional      *)
(* values are sequences of length at most one: None is <<>>, and the       *)
(* string s is <<s>>.                                                      *)
(***************************************************************************)
EXTENDS Integers, Sequences, FiniteSets, TLC

VARIABLES
    pc,           \* position of the running script
    pom_version,  \* __main__: pom_version
    latest_tag,   \* __main__: latest_tag
    log,          \* what this run has printed
    cmds,         \* the subprocess.run invocations of this run, in order
    calls,        \* the create_tag / push_tag calls of this run, in order
    uncaught,     \* TRUE once an exception has left a function of the script
    pom,          \* the file pom.xml
    localTags,    \* tags of the local clone
    latest,       \* the tag git describe --tags --abbrev=0 names, if any
    config,       \* user.name / user.email of the local clone
    remoteTags,   \* tags of origin
    run,          \* number of the current run
    repo0,        \* the repository as it was when the current run started
    stuck,        \* a tag some run created locally and then failed to push
    descFail      \* TRUE once git describe failed in a run after `stuck` was set

vars == <<pc, pom_version, latest_tag, log, cmds, calls, uncaught, pom,
          localTags, latest, config, remoteTags, run, repo0, stuck, descFail>>

MaxRuns == 3

----------------------------------------------------------------------------
(* Values *)

None == <<>>
Some(x) == <<x>>

\* Python truthiness of an Optional[str]: None and "" are falsy.
Truthy(x) == x # None /\ x[1] # <<>>

Whitespace == {" ", "\n"}

RECURSIVE lstrip(_)
lstrip(s) == IF s # <<>> /\ Head(s) \in Whitespace THEN lstrip(Tail(s)) ELSE s

RECURSIVE rstrip(_)
rstrip(s) ==
    IF s # <<>> /\ s[Len(s)] \in Whitespace
    THEN rstrip(SubSeq(s, 1, Len(s) - 1))
    ELSE s

\* str.strip()
strip(s) == rstrip(lstrip(s))

\* "{x}" in an f-string: str(x); str(None) is "None".
Format(x) == IF x = None THEN <<"N", "o", "n", "e">> ELSE x[1]

\* f"v{version}"
TagName(version) == <<"v">> \o Format(version)

VersionTexts == {<<"1">>, <<"2">>}

\* pom.xml: missing, not well-formed, without the namespaced version element,
\* or with one; the text of an empty element is None.
PomFiles ==
    {[kind |-> k, text |-> None] : k \in {"missing", "malformed", "noelem", "elem"}}
    \cup {[kind |-> "elem", text |-> Some(t)] : t \in VersionTexts}

----------------------------------------------------------------------------
(* Exceptions and subprocess.run(..., capture_output=True, text=True, check=True) *)

NoExc == [cls |-> "none", cmd |-> <<>>, returncode |-> 0, stderr |-> <<>>]

Raise(cls) == [cls |-> cls, cmd |-> <<>>, returncode |-> 0, stderr |-> <<>>]

\* What the command wrote to its standard error.
StderrOf(argv) == <<"stderr of", argv>>

CalledProcessError(argv) ==
    [cls |-> "CalledProcessError", cmd |-> argv, returncode |-> 128,
     stderr |-> StderrOf(argv)]

\* str(e)
Str(e) ==
    IF e.cls = "CalledProcessError"
    THEN <<"Command", e.cmd, "returned non-zero exit status", e.returncode>>
    ELSE <<"str", e.cls>>

\* `except cls` catches e.
IsInstance(e, cls) == e.cls = cls \/ cls = "Exception"

\* Index of the first except clause that catches e; 0 when none does.
Catch(clauses, e) ==
    IF \E i \in 1..Len(clauses) : IsInstance(e, clauses[i])
    THEN CHOOSE i \in 1..Len(clauses) :
            /\ IsInstance(e, clauses[i])
            /\ \A j \in 1..(i - 1) : ~IsInstance(e, clauses[j])
    ELSE 0

Completed(stdout) == [ok |-> TRUE, stdout |-> stdout, exc |-> NoExc]
Failed(e) == [ok |-> FALSE, stdout |-> <<>>, exc |-> e]

\* A command can always fail: with a non-zero exit status (CalledProcessError)
\* or without being run at all (OSError).
Failures(argv) == {Failed(CalledProcessError(argv)), Failed(Raise("OSError"))}

DescribeArgv == <<"git", "describe", "--tags", "--abbrev=0">>
TagArgv(tag_name) == <<"git", "tag", tag_name>>
ConfigNameArgv == <<"git", "config", "user.name", "github-actions[bot]">>
ConfigEmailArgv ==
    <<"git", "config", "user.email", "github-actions[bot]@users.noreply.github.com">>
PushArgv(tag_name) == <<"git", "push", "origin", tag_name>>

\* The outcomes of subprocess.run(argv) in repository state s.  git describe
\* succeeds only when there is a tag, git tag only when the name is free, git
\* push only when the tag exists locally.
SubprocessRun(argv, s) ==
    Failures(argv) \cup
    CASE argv[2] = "describe" ->
            IF s.latest = None THEN {} ELSE {Completed(s.latest[1] \o <<"\n">>)}
      [] argv[2] = "tag" ->
            IF argv[3] \in s.localTags THEN {} ELSE {Completed(<<>>)}
      [] argv[2] = "push" ->
            IF argv[4] \in s.localTags THEN {Completed(<<>>)} ELSE {}
      [] OTHER -> {Completed(<<>>)}

\* The repository after a successful run of argv.
Effect(argv, s) ==
    CASE argv[2] = "tag" ->
            [s EXCEPT !.localTags = @ \cup {argv[3]}, !.latest = Some(argv[3])]
      [] argv[2] = "config" ->
            [s EXCEPT !.config = [@ EXCEPT ![argv[3]] = Some(argv[4])]]
      [] argv[2] = "push" ->
            [s EXCEPT !.remoteTags = @ \cup {argv[4]}]
      [] OTHER -> s

Invocation(argv, r) == [argv |-> argv, ok |-> r.ok, exc |-> r.exc.cls]

LogLine(fn, text, detail) == [fn |-> fn, text |-> text, detail |-> detail]

----------------------------------------------------------------------------
(* The state the functions of the script read and write *)

State ==
    [pom_version |-> pom_version, latest_tag |-> latest_tag, log |-> log,
     cmds |-> cmds, uncaught |-> uncaught, pom |-> pom, localTags |-> localTags,
     latest |-> latest, config |-> config, remoteTags |-> remoteTags]

Becomes(s) ==
    /\ pom_version' = s.pom_version
    /\ latest_tag' = s.latest_tag
    /\ log' = s.log
    /\ cmds' = s.cmds
    /\ uncaught' = s.uncaught
    /\ pom' = s.pom
    /\ localTags' = s.localTags
    /\ latest' = s.latest
    /\ config' = s.config
    /\ remoteTags' = s.remoteTags

Repo(s) ==
    [pom |-> s.pom, localTags |-> s.localTags, latest |-> s.latest,
     config |-> s.config, remoteTags |-> s.remoteTags]

\* Leaving a function: normally, through an except clause that prints, or
\* with the exception e uncaught.
Handle(s, fn, clauses, texts, details, e) ==
    LET i == Catch(clauses, e) IN
    IF i = 0
    THEN [s EXCEPT !.uncaught = TRUE]
    ELSE [s EXCEPT !.log = Append(@, LogLine(fn, texts[i], details[i]))]

----------------------------------------------------------------------------
(* The functions of the script *)

NoDetail == <<>>

\* The except clauses of the four functions, in order.
get_pom_version_clauses == <<"FileNotFoundError", "Exception">>
get_latest_tag_clauses == <<"CalledProcessError", "Exception">>
create_tag_clauses == <<"CalledProcessError", "Exception">>

\* push_tag without its `except Exception` clause.
push_tag_clauses_cpe_only == <<"CalledProcessError">>

push_tag_clauses == <<"CalledProcessError", "Exception">>

\* get_pom_version(): ET.parse raises FileNotFoundError or ParseError;
\* root.find returns None when the element is absent, and None.text raises
\* AttributeError.
get_pom_version(s) ==
    LET e == CASE s.pom.kind = "missing" -> Raise("FileNotFoundError")
               [] s.pom.kind = "malformed" -> Raise("ParseError")
               [] s.pom.kind = "noelem" -> Raise("AttributeError")
               [] OTHER -> NoExc
    IN  IF e.cls = "none"
        THEN [s EXCEPT !.pom_version = s.pom.text]
        ELSE Handle([s EXCEPT !.pom_version = None], "get_pom_version",
                    get_pom_version_clauses,
                    <<"pom.xml not found.", "Error parsing pom.xml: ">>,
                    <<NoDetail, Str(e)>>, e)

\* get_latest_tag() storing its result in the variable get_pom_version's
\* result is in, and not only in its own.
get_latest_tag_shared(s, r) ==
    LET s1 == [s EXCEPT !.cmds = Append(@, Invocation(DescribeArgv, r))] IN
    IF r.ok
    THEN [s1 EXCEPT !.latest_tag = Some(strip(r.stdout))]
    ELSE Handle([s1 EXCEPT !.latest_tag = None, !.pom_version = None],
                "get_latest_tag",
                <<"CalledProcessError", "Exception">>,
                <<"No Git tags found.", "Error retrieving last Git tag: ">>,
                <<NoDetail, Str(r.exc)>>, r.exc)

\* get_latest_tag(), r being the outcome of git describe.
get_latest_tag(s, r) ==
    LET s1 == [s EXCEPT !.cmds = Append(@, Invocation(DescribeArgv, r))] IN
    IF r.ok
    THEN [s1 EXCEPT !.latest_tag = Some(strip(r.stdout))]
    ELSE Handle([s1 EXCEPT !.latest_tag = None], "get_latest_tag",
                get_latest_tag_clauses,
                <<"No Git tags found.", "Error retrieving last Git tag: ">>,
                <<NoDetail, Str(r.exc)>>, r.exc)

\* create_tag(version), r being the outcome of git tag.
create_tag(s, version, r) ==
    LET tag_name == TagName(version)
        argv == TagArgv(tag_name)
        s1 == [s EXCEPT !.cmds = Append(@, Invocation(argv, r))]
    IN  IF r.ok
        THEN [Effect(argv, s1) EXCEPT
                !.log = Append(@, LogLine("create_tag", "created successfully.", tag_name))]
        ELSE Handle(s1, "create_tag",
                    create_tag_clauses,
                    <<"Error during tag creation: ", "Unexpected error during tag creation: ">>,
                    <<Str(r.exc), Str(r.exc)>>, r.exc)

\* The commands of push_tag's try block.
push_tag_argvs(tag_name) == <<ConfigNameArgv, ConfigEmailArgv, PushArgv(tag_name)>>

\* push_tag without check=True: a failed command does not end the try block.
push_tag_runs_unchecked(s, tag_name) ==
    LET argvs == push_tag_argvs(tag_name)
        all == UNION {SubprocessRun(argvs[i], s) : i \in 1..Len(argvs)}
    IN  {rs \in [1..Len(argvs) -> all] :
            \A i \in 1..Len(rs) : rs[i] \in SubprocessRun(argvs[i], s)}

\* The ways the try block of push_tag can go: the outcomes of the commands it
\* issues, in order.  check=True raises at the first command that fails, so
\* every outcome but the last is a success.
push_tag_runs(s, tag_name) ==
    LET argvs == push_tag_argvs(tag_name)
        all == UNION {SubprocessRun(argvs[i], s) : i \in 1..Len(argvs)}
    IN  {rs \in UNION {[1..n -> all] : n \in 1..Len(argvs)} :
            /\ \A i \in 1..Len(rs) : rs[i] \in SubprocessRun(argvs[i], s)
            /\ \A i \in 1..(Len(rs) - 1) : rs[i].ok
            /\ Len(rs) < Len(argvs) => ~rs[Len(rs)].ok}

\* The state after the first n commands of argvs ended as rs says.
RECURSIVE Issued(_, _, _, _)
Issued(s, argvs, rs, n) ==
    IF n = 0 THEN s
    ELSE LET p == Issued(s, argvs, rs, n - 1)
             q == [p EXCEPT !.cmds = Append(@, Invocation(argvs[n], rs[n]))]
         IN  IF rs[n].ok THEN Effect(argvs[n], q) ELSE q

\* push_tag(tag_name), rs being the outcomes of its commands.
push_tag(s, tag_name, rs) ==
    LET s1 == Issued(s, push_tag_argvs(tag_name), rs, Len(rs))
        last == rs[Len(rs)]
    IN  IF last.ok
        THEN [s1 EXCEPT
                !.log = Append(@, LogLine("push_tag", "pushed successfully.", tag_name))]
        ELSE Handle(s1, "push_tag",
                    push_tag_clauses,
                    <<"Error when pushing tag: ", "Unexpected error during tag push: ">>,
                    <<last.exc.stderr, Str(last.exc)>>, last.exc)

\* The elif without its `pom_version and`.
ShouldSyncNoVersionCheck(v, t) ==
    IF Truthy(v) /\ Truthy(t)
    THEN TagName(v) # t[1]
    ELSE t = None

\* The decision as the single condition v is not None and f"v{v}" != t.
ShouldSyncSingleCondition(v, t) == v # None /\ Some(TagName(v)) # t

\* The comparison without the "v" prefix: pom_version != latest_tag.
ShouldSyncNoPrefix(v, t) ==
    IF Truthy(v) /\ Truthy(t)
    THEN v[1] # t[1]
    ELSE Truthy(v) /\ t = None

\* The comparison inverted: == for !=.
ShouldSyncInverted(v, t) ==
    IF Truthy(v) /\ Truthy(t)
    THEN TagName(v) = t[1]
    ELSE Truthy(v) /\ t = None

\* The if / elif of __main__: TRUE when create_tag and push_tag are called.
ShouldSync(v, t) ==
    IF Truthy(v) /\ Truthy(t)
    THEN TagName(v) # t[1]
    ELSE Truthy(v) /\ t = None

\* push_tag(pom_version): the "v" prefix forgotten.
PushArgNoPrefix(version) == Format(version)

\* The argument __main__ passes to push_tag.
PushArg(version) == TagName(version)

----------------------------------------------------------------------------
(* One action per step of __main__ *)

Tags == {TagName(Some(t)) : t \in VersionTexts}

InitialRepos ==
    {<<{}, None>>}
    \cup {<<{T}, Some(T)>> : T \in Tags}
    \cup {<<Tags, Some(T)>> : T \in Tags}

UnsetConfig == [k \in {"user.name", "user.email"} |-> None]

Init ==
    /\ pc = "start"
    /\ pom_version = None
    /\ latest_tag = None
    /\ log = <<>>
    /\ cmds = <<>>
    /\ calls = <<>>
    /\ uncaught = FALSE
    /\ pom \in PomFiles
    /\ \E r \in InitialRepos :
        /\ localTags = r[1]
        /\ latest = r[2]
        /\ remoteTags = r[1]
    /\ config = UnsetConfig
    /\ run = 1
    /\ repo0 = [pom |-> pom, localTags |-> localTags, latest |-> latest,
                config |-> config, remoteTags |-> remoteTags]
    /\ stuck = None
    /\ descFail = FALSE

\* pom_version = get_pom_version()
main_get_pom_version ==
    /\ pc = "start" /\ ~uncaught
    /\ Becomes(get_pom_version(State))
    /\ pc' = "read"
    /\ UNCHANGED <<calls, run, repo0, stuck, descFail>>

\* latest_tag = get_latest_tag()
main_get_latest_tag ==
    /\ pc = "read" /\ ~uncaught
    /\ \E r \in SubprocessRun(DescribeArgv, State) :
        /\ Becomes(get_latest_tag(State, r))
        /\ descFail' = (descFail \/ (stuck # None /\ ~r.ok))
    /\ pc' = "decide"
    /\ UNCHANGED <<calls, run, repo0, stuck>>

\* if pom_version and latest_tag: ... elif pom_version and latest_tag is None: ...
main_decide ==
    /\ pc = "decide" /\ ~uncaught
    /\ pc' = IF ShouldSync(pom_version, latest_tag) THEN "create" ELSE "done"
    /\ UNCHANGED <<pom_version, latest_tag, log, cmds, calls, uncaught, pom,
                   localTags, latest, config, remoteTags, run, repo0, stuck, descFail>>

\* __main__ giving up when create_tag has failed.
main_create_tag_or_stop ==
    /\ pc = "create" /\ ~uncaught
    /\ \E r \in SubprocessRun(TagArgv(TagName(pom_version)), State) :
        /\ Becomes(create_tag(State, pom_version, r))
        /\ pc' = IF r.ok THEN "push" ELSE "done"
    /\ calls' = Append(calls, <<"create_tag", pom_version>>)
    /\ UNCHANGED <<run, repo0, stuck, descFail>>

\* create_tag(pom_version)
main_create_tag ==
    /\ pc = "create" /\ ~uncaught
    /\ \E r \in SubprocessRun(TagArgv(TagName(pom_version)), State) :
        Becomes(create_tag(State, pom_version, r))
    /\ calls' = Append(calls, <<"create_tag", pom_version>>)
    /\ pc' = "push"
    /\ UNCHANGED <<run, repo0, stuck, descFail>>

\* This run created the tag locally.
Created(tag_name) ==
    \E i \in 1..Len(cmds) : cmds[i].argv = TagArgv(tag_name) /\ cmds[i].ok

\* push_tag(f"v{pom_version}")
main_push_tag ==
    /\ pc = "push" /\ ~uncaught
    /\ LET tag_name == PushArg(pom_version) IN
       \E rs \in push_tag_runs(State, tag_name) :
        /\ Becomes(push_tag(State, tag_name, rs))
        /\ calls' = Append(calls, <<"push_tag", Some(tag_name)>>)
        /\ stuck' = IF stuck = None /\ Created(tag_name) /\ ~rs[Len(rs)].ok
                    THEN Some([tag |-> tag_name, run |-> run])
                    ELSE stuck
    /\ pc' = "done"
    /\ UNCHANGED <<run, repo0, descFail>>

\* The script is started again, on the same clone and the same pom.xml.
NextRun ==
    /\ pc = "done" /\ ~uncaught
    /\ run < MaxRuns
    /\ pc' = "start"
    /\ pom_version' = None
    /\ latest_tag' = None
    /\ log' = <<>>
    /\ cmds' = <<>>
    /\ calls' = <<>>
    /\ run' = run + 1
    /\ repo0' = Repo(State)
    /\ UNCHANGED <<uncaught, pom, localTags, latest, config, remoteTags, stuck, descFail>>

Next ==
    \/ main_get_pom_version
    \/ main_get_latest_tag
    \/ main_decide
    \/ main_create_tag
    \/ main_push_tag
    \/ NextRun

Spec == Init /\ [][Next]_vars

\* The script is sequential and every command returns: a started run goes on.
FairSpec == Spec /\ WF_vars(Next)

----------------------------------------------------------------------------
(* The decision of __main__ on its own: pom_version and latest_tag are drawn *)
(* from every Optional[str] of the bounded sets, the empty string included, *)
(* and the script goes on from its if statement.                            *)

DecisionVersions == {None} \cup {Some(t) : t \in VersionTexts \cup {<<>>}}

DecisionTags == {None} \cup {Some(t) : t \in Tags \cup {<<>>, <<"v">>}}

DecisionInit ==
    /\ pc = "decide"
    /\ pom_version \in DecisionVersions
    /\ latest_tag \in DecisionTags
    /\ log = <<>>
    /\ cmds = <<>>
    /\ calls = <<>>
    /\ uncaught = FALSE
    /\ pom \in PomFiles
    /\ \E r \in InitialRepos :
        /\ localTags = r[1]
        /\ latest = r[2]
        /\ remoteTags = r[1]
    /\ config = UnsetConfig
    /\ run = 1
    /\ repo0 = [pom |-> pom, localTags |-> localTags, latest |-> latest,
                config |-> config, remoteTags |-> remoteTags]
    /\ stuck = None
    /\ descFail = FALSE

DecisionSpec == DecisionInit /\ [][Next]_vars

----------------------------------------------------------------------------
(* Properties *)

\* The invocations of this run that create, configure or push.
IsTagCmd(c) == c.argv[2] = "tag"
IsConfigCmd(c) == c.argv[2] = "config"
IsPushCmd(c) == c.argv[2] = "push"
Mutating(c) == IsTagCmd(c) \/ IsConfigCmd(c) \/ IsPushCmd(c)

Indices(P(_)) == {i \in 1..Len(cmds) : P(cmds[i])}

\* The if statement of __main__ has been executed in this run.
Decided == pc \in {"create", "push", "done"}

\* C1: when the manifest version is null (pom.xml missing, unparsable or
\* without the version element), no git tag, git config or git push command
\* is invoked and neither create_tag nor push_tag is called, whatever the
\* latest tag is.
C1_NoTagWithoutVersion ==
    /\ (pc = "read" /\ pom.kind # "elem") => pom_version = None
    /\ pom_version = None =>
        /\ Indices(Mutating) = {}
        /\ calls = <<>>
        /\ pc \notin {"create", "push"}

C1_Witness ==
    /\ pc = "done"
    /\ pom_version = None
    /\ latest_tag # None
    /\ calls = <<>>

\* The calls __main__ makes when it synchronises.
SyncCalls(v) == <<<<"create_tag", v>>, <<"push_tag", Some(TagName(v))>>>>

\* C2 as stated: create_tag(v) and push_tag("v"+v) are called if and only if
\* v is non-null and "v"+v differs from t (a null t differing from every name).
C2_SingleCondition ==
    pc = "done" =>
        IF pom_version # None /\ Some(TagName(pom_version)) # latest_tag
        THEN calls = SyncCalls(pom_version)
        ELSE calls = <<>>

\* C2 amended: create_tag(v) and push_tag("v"+v) are called if and only if v is
\* a non-empty string and either t is null or t is a non-empty string other
\* than "v"+v; in every other case (v null or empty, t empty, t equal to
\* "v"+v) neither is called.
C2_TwoBranchDecision ==
    pc = "done" =>
        IF /\ pom_version # None
           /\ pom_version # Some(<<>>)
           /\ \/ latest_tag = None
              \/ latest_tag # Some(<<>>) /\ latest_tag # Some(TagName(pom_version))
        THEN calls = SyncCalls(pom_version)
        ELSE calls = <<>>

C2_Witness ==
    /\ pc = "done"
    /\ pom_version # None
    /\ latest_tag = Some(<<>>)
    /\ calls = <<>>

\* No command is invoked twice in one run.
NoRepeat == \A i, j \in 1..Len(cmds) : cmds[i].argv = cmds[j].argv => i = j

\* C3 as stated: whenever v is non-null and "v"+v differs from the latest
\* tag, git tag and git push origin are each invoked exactly once, with the
\* name "v"+v, the creation first, and nothing is invoked twice.
C3_ExactlyOneTagAndPush ==
    (pc = "done" /\ pom_version # None /\ Some(TagName(pom_version)) # latest_tag) =>
        /\ \E i, j \in 1..Len(cmds) :
            /\ Indices(IsTagCmd) = {i}
            /\ Indices(IsPushCmd) = {j}
            /\ cmds[i].argv = TagArgv(TagName(pom_version))
            /\ cmds[j].argv = PushArgv(TagName(pom_version))
            /\ i < j
        /\ NoRepeat

\* This run issued both git config commands and both succeeded.
Configured ==
    \A argv \in {ConfigNameArgv, ConfigEmailArgv} :
        \E i \in 1..Len(cmds) : cmds[i].argv = argv /\ cmds[i].ok

\* C3 amended: whenever v is a non-empty string and the latest tag is null or
\* a non-empty string other than "v"+v, git tag is invoked exactly once, with
\* the name "v"+v; git push origin is invoked at most once, with the same
\* name and after the creation, and it is invoked exactly when both git
\* config commands succeeded; no command is invoked a second time.
C3_OneTagAtMostOnePush ==
    /\ NoRepeat
    /\ (/\ pc = "done"
        /\ Truthy(pom_version)
        /\ latest_tag # Some(<<>>)
        /\ latest_tag # Some(TagName(pom_version))) =>
            /\ \E i \in 1..Len(cmds) :
                /\ Indices(IsTagCmd) = {i}
                /\ cmds[i].argv = TagArgv(TagName(pom_version))
                /\ \A j \in Indices(IsPushCmd) :
                    /\ cmds[j].argv = PushArgv(TagName(pom_version))
                    /\ i < j
            /\ Cardinality(Indices(IsPushCmd)) = IF Configured THEN 1 ELSE 0

C3_Witness ==
    /\ pc = "done"
    /\ latest_tag # None
    /\ \E i, j \in 1..Len(cmds) :
        /\ i < j
        /\ IsTagCmd(cmds[i]) /\ cmds[i].ok
        /\ IsPushCmd(cmds[j]) /\ cmds[j].ok
    /\ TagName(pom_version) \in remoteTags

\* C4: every run reaches its end and no exception leaves the function that
\* issued the failing command, whatever fails.
C4_AlwaysCompletes ==
    /\ [](~uncaught)
    /\ [](pc = "start" => <>(pc = "done"))

C4_Witness ==
    /\ pc = "done"
    /\ ~uncaught
    /\ \E i, j \in 1..Len(cmds) :
        /\ IsTagCmd(cmds[i]) /\ cmds[i].exc = "CalledProcessError"
        /\ IsConfigCmd(cmds[j]) /\ cmds[j].exc = "OSError"

\* The latest tag the run read is the tag of the manifest version.
InSync == pom_version # None /\ latest_tag = Some(TagName(pom_version))

C6_FailureLoggedWithStderr ==
    \A i \in Indices(Mutating) :
        cmds[i].exc = "CalledProcessError" =>
            \E k \in 1..Len(log) : log[k].detail = StderrOf(cmds[i].argv)

\* The state a run starts in, given the state it has reached.
RunStart ==
    [State EXCEPT !.pom_version = None, !.latest_tag = None, !.log = <<>>,
                  !.cmds = <<>>, !.localTags = repo0.localTags,
                  !.latest = repo0.latest, !.config = repo0.config,
                  !.remoteTags = repo0.remoteTags]

\* get_latest_tag before get_pom_version, and after it, agree from state s:
\* neither changes the repository, and for each outcome of git describe both
\* orders end with the same pom_version and latest_tag, the same decision and
\* the same commands open to create_tag and push_tag.
Commute(s) ==
    /\ Repo(get_pom_version(s)) = Repo(s)
    /\ SubprocessRun(DescribeArgv, get_pom_version(s)) = SubprocessRun(DescribeArgv, s)
    /\ \A r \in SubprocessRun(DescribeArgv, s) :
        LET a == get_latest_tag(get_pom_version(s), r)
            b == get_pom_version(get_latest_tag(s, r))
        IN  /\ Repo(get_latest_tag(s, r)) = Repo(s)
            /\ a.pom_version = b.pom_version
            /\ a.latest_tag = b.latest_tag
            /\ a.uncaught = b.uncaught
            /\ Repo(a) = Repo(b)
            /\ ShouldSync(a.pom_version, a.latest_tag)
                = ShouldSync(b.pom_version, b.latest_tag)

\* C7: get_pom_version and get_latest_tag are read-only and can be swapped:
\* at the start of every run the two orders agree, and the pair the run has
\* read by the time of its decision is a pair the swapped order yields from
\* the state the run started in.
C7_OrderInsensitive ==
    /\ pc = "start" => Commute(State)
    /\ pc = "decide" =>
        /\ Repo(State) = repo0
        /\ \E r \in SubprocessRun(DescribeArgv, RunStart) :
            LET b == get_pom_version(get_latest_tag(RunStart, r)) IN
            /\ b.pom_version = pom_version
            /\ b.latest_tag = latest_tag

C7_Witness ==
    /\ pc = "decide"
    /\ pom_version # None
    /\ latest_tag # None
    /\ run > 1
    /\ localTags # {}

\* The git config and git push invocations of this run.
IsPublishCmd(c) == IsConfigCmd(c) \/ IsPushCmd(c)
Published == SelectSeq(cmds, IsPublishCmd)

PushedMessage ==
    \E k \in 1..Len(log) : log[k].fn = "push_tag" /\ log[k].text = "pushed successfully."

\* C8: push_tag issues config user.name, config user.email and push origin
\* in this order, each only after the ones before it succeeded; after a
\* failure it issues nothing more, does not print the success message, and
\* returns normally.
C8_PushTagOrder ==
    LET argvs == push_tag_argvs(TagName(pom_version))
        n == Len(Published)
    IN  /\ n <= Len(argvs)
        /\ \A i \in 1..n : Published[i].argv = argvs[i]
        /\ \A i \in 1..(n - 1) : Published[i].ok
        /\ PushedMessage <=> (n = Len(argvs) /\ Published[n].ok)
        /\ (n > 0 /\ ~Published[n].ok) => (pc = "done" /\ ~uncaught)
        /\ (pc = "done" /\ calls # <<>>) => n >= 1

C8_Witness ==
    /\ pc = "done"
    /\ Len(Published) = 2
    /\ ~Published[2].ok
    /\ ~PushedMessage

\* C9: push_tag("v"+v) is called after create_tag(v) has returned, whether
\* git tag succeeded or failed: a run that invoked git tag goes on to
\* push_tag, which invokes git config user.name after it.
C9_PushAfterFailedCreate ==
    /\ Indices(IsTagCmd) # {} => pc \in {"push", "done"}
    /\ (pc = "done" /\ Indices(IsTagCmd) # {}) =>
        /\ calls = SyncCalls(pom_version)
        /\ \E i, j \in 1..Len(cmds) :
            /\ IsTagCmd(cmds[i])
            /\ cmds[j].argv = ConfigNameArgv
            /\ i < j

C9_Witness ==
    /\ pc = "done"
    /\ \E i, j \in 1..Len(cmds) :
        /\ IsTagCmd(cmds[i]) /\ ~cmds[i].ok
        /\ IsPushCmd(cmds[j]) /\ cmds[j].ok
        /\ i < j

\* C10 as stated: once a run has created the tag and failed in push_tag, the
\* tag stays in the local clone, no later run attempts a push, and the remote
\* never receives the tag.
C10_NeverPushedAgain ==
    stuck # None =>
        /\ stuck[1].tag \in localTags
        /\ stuck[1].tag \notin remoteTags
        /\ run > stuck[1].run => Indices(IsPushCmd) = {}

\* C10 amended: once a run has created the tag and failed in push_tag, the
\* tag stays in the local clone and stays the latest tag; every later run in
\* which get_latest_tag returns a tag calls neither create_tag nor push_tag;
\* and as long as git describe has not failed in a later run, no push is
\* attempted and the remote does not receive the tag.  (A later run in which
\* git describe fails calls push_tag again.)
C10_NotRolledBack ==
    stuck # None =>
        /\ stuck[1].tag \in localTags
        /\ latest = Some(stuck[1].tag)
        /\ (run > stuck[1].run /\ Decided /\ latest_tag # None) =>
                /\ latest_tag = Some(stuck[1].tag)
                /\ calls = <<>>
                /\ Indices(Mutating) = {}
        /\ ~descFail =>
                /\ stuck[1].tag \notin remoteTags
                /\ run > stuck[1].run => Indices(Mutating) = {}

C10_Witness ==
    /\ stuck # None
    /\ run = MaxRuns
    /\ run > stuck[1].run + 1
    /\ pc = "done"
    /\ ~descFail
    /\ stuck[1].tag \in localTags
    /\ stuck[1].tag \notin remoteTags

====
